---- MODULE Spec2Model ----
(***************************************************************************)
(* Model of the json-filter crate (src/src/lib.rs): Filter::check, which   *)
(* resolves a dotted/bracketed path inside a JSON value and then applies   *)
(* an operator to the value the path resolves to.                          *)
(*                                                                         *)
(* Strings are sequences of one-character strings, so that split('.'),     *)
(* contains('['), ends_with(']'), find('['), slicing, str::parse::<usize>  *)
(* and usize::to_string are computed character by character.               *)
(* JSON values are records tagged by k: null, bool, num, str, arr, obj.    *)
(* An object is a function from keys (strings) to values.                  *)
(***************************************************************************)
EXTENDS Integers, Sequences, FiniteSets, TLC

VARIABLES filter, value, pc, result, segs, trail

vars == <<filter, value, pc, result, segs, trail>>

(***************************************************************************)
(* Strings                                                                 *)
(***************************************************************************)
Digits == <<"0", "1", "2", "3", "4", "5", "6", "7", "8", "9">>

IsDigit(c) == \E i \in 1..Len(Digits) : Digits[i] = c

DigitVal(c) == (CHOOSE i \in 1..Len(Digits) : Digits[i] = c) - 1

\* str::contains(char)
ContainsChar(s, c) == \E i \in 1..Len(s) : s[i] = c

\* str::ends_with(char)
EndsWithChar(s, c) == Len(s) > 0 /\ s[Len(s)] = c

\* str::find(char): 0-based position of the first occurrence, or -1 for None
FindChar(s, c) ==
    IF ContainsChar(s, c)
    THEN (CHOOSE i \in 1..Len(s) : s[i] = c /\ \A j \in 1..(i - 1) : s[j] # c) - 1
    ELSE -1

\* the slice s[from..to] with 0-based, end-exclusive bounds
Slice(s, from, to) == SubSeq(s, from + 1, to)

\* variant of Split that splits at the first separator only, as split_once
SplitOnce(s, c) ==
    LET i == FindChar(s, c)
    IN  IF i < 0 THEN <<s>>
        ELSE <<Slice(s, 0, i), Slice(s, i + 1, Len(s))>>

\* str::split('.'): the pieces between the dots; "" splits into one empty piece
RECURSIVE Split(_, _)
Split(s, c) ==
    LET i == FindChar(s, c)
    IN  IF i < 0 THEN <<s>>
        ELSE <<Slice(s, 0, i)>> \o Split(Slice(s, i + 1, Len(s)), c)

\* str::starts_with(&str), str::ends_with(&str), str::contains(&str)
StartsWith(s, t) == Len(t) <= Len(s) /\ SubSeq(s, 1, Len(t)) = t

EndsWith(s, t) == Len(t) <= Len(s) /\ SubSeq(s, Len(s) - Len(t) + 1, Len(s)) = t

ContainsStr(s, t) ==
    \E i \in 0..(Len(s) - Len(t)) : SubSeq(s, i + 1, i + Len(t)) = t

(***************************************************************************)
(* Result<T, FilterError>                                                  *)
(***************************************************************************)
Ok(x) == [ok |-> TRUE, val |-> x]

IsOk(r) == r.ok

IsErr(r) == ~r.ok

PathNotFound(name) == [ok |-> FALSE, err |-> "PathNotFound", text |-> name]

\* variant of TypeMismatch that answers false instead of failing
MismatchAsFalse(expected, v) == [ok |-> TRUE, val |-> FALSE]

\* got is format!("{:?}", value): the Debug text is determined by the value,
\* so the error carries the value it prints
TypeMismatch(expected, v) ==
    [ok |-> FALSE, err |-> "TypeMismatch", expected |-> expected, got |-> v]

InvalidArrayIndex(text) == [ok |-> FALSE, err |-> "InvalidArrayIndex", text |-> text]

InvalidPath(text) == [ok |-> FALSE, err |-> "InvalidPath", text |-> text]

(***************************************************************************)
(* usize parsing and printing                                              *)
(***************************************************************************)
RECURSIVE DigitsValue(_, _)
DigitsValue(s, acc) ==
    IF s = <<>> THEN acc ELSE DigitsValue(Tail(s), 10 * acc + DigitVal(Head(s)))

\* str::parse::<usize>: an optional leading '+', then one or more decimal
\* digits.  -1 stands for Err(ParseIntError).
ParseUsize(s) ==
    LET body == IF Len(s) > 1 /\ s[1] = "+" THEN Tail(s) ELSE s
    IN  IF body # <<>> /\ \A i \in 1..Len(body) : IsDigit(body[i])
        THEN DigitsValue(body, 0)
        ELSE -1

\* usize::to_string: decimal text without sign or leading zeros
RECURSIVE UsizeToString(_)
UsizeToString(n) ==
    IF n < 10 THEN <<Digits[n + 1]>>
    ELSE UsizeToString(n \div 10) \o <<Digits[(n % 10) + 1]>>

(***************************************************************************)
(* serde_json::Value                                                       *)
(***************************************************************************)
Null == [k |-> "null"]

Bool(b) == [k |-> "bool", b |-> b]

Number(n) == [k |-> "num", n |-> n]

String(s) == [k |-> "str", s |-> s]

Array(a) == [k |-> "arr", a |-> a]

Object(o) == [k |-> "obj", o |-> o]

\* An f64 is NaN or a finite value hi * 2^53 + lo, |lo| small: the values
\* next to 0 and the values next to 2^53, where the spacing of f64 becomes 2.
NaN == [c |-> "nan"]

Fin(hi, lo) == [c |-> "fin", hi |-> hi, lo |-> lo]

\* serde_json::Number holds a u64 (PosInt), a negative i64 (NegInt) or a
\* finite f64 (Float); an integer is hi * 2^53 + lo.
PosInt(hi, lo) == [t |-> "PosInt", hi |-> hi, lo |-> lo]

NegInt(lo) == [t |-> "NegInt", hi |-> 0, lo |-> lo]

Float(f) == [t |-> "Float", f |-> f]

\* u64 as f64 rounds to the nearest f64, ties to the even mantissa: from 2^53
\* on only even integers are f64 values.
RoundTiesEven(lo) ==
    IF lo % 2 = 0 THEN lo
    ELSE IF ((lo - 1) \div 2) % 2 = 0 THEN lo - 1 ELSE lo + 1

\* Number::as_f64().unwrap()
AsF64(num) ==
    IF num.t = "Float" THEN num.f
    ELSE IF num.hi = 0 THEN Fin(0, num.lo)
    ELSE Fin(num.hi, RoundTiesEven(num.lo))

\* IEEE-754 comparisons of f64: every comparison with NaN is false
F64Lt(a, b) ==
    /\ a.c = "fin" /\ b.c = "fin"
    /\ (a.hi < b.hi \/ (a.hi = b.hi /\ a.lo < b.lo))

F64Gt(a, b) == F64Lt(b, a)

F64Le(a, b) == a.c = "fin" /\ b.c = "fin" /\ ~F64Lt(b, a)

F64Ge(a, b) == F64Le(b, a)

\* Option<&Value>
None == [some |-> FALSE]

Some(v) == [some |-> TRUE, val |-> v]

\* Value::get(&str): the member of an Object under that key; None for a
\* missing key and for every value that is not an Object
ValueGet(v, key) ==
    IF v.k = "obj" /\ key \in DOMAIN v.o THEN Some(v.o[key]) ELSE None

\* variant of SliceGet that counts the elements from 1
SliceGetOneBased(arr, index) ==
    IF 1 <= index /\ index <= Len(arr) THEN Some(arr[index]) ELSE None

\* <[Value]>::get(usize): arrays are 0-based
SliceGet(arr, index) ==
    IF index < Len(arr) THEN Some(arr[index + 1]) ELSE None

(***************************************************************************)
(* Filter and Operator                                                     *)
(***************************************************************************)
\* Filter::new
NewFilter(path, operator) == [path |-> path, operator |-> operator]

GreaterThan(n) == [op |-> "GreaterThan", n |-> n]

LessThan(n) == [op |-> "LessThan", n |-> n]

GreaterOrEqual(n) == [op |-> "GreaterOrEqual", n |-> n]

LessOrEqual(n) == [op |-> "LessOrEqual", n |-> n]

Equals(target) == [op |-> "Equals", target |-> target]

NotEqual(target) == [op |-> "NotEqual", target |-> target]

OpStartsWith(s) == [op |-> "StartsWith", s |-> s]

OpEndsWith(s) == [op |-> "EndsWith", s |-> s]

OpContains(s) == [op |-> "Contains", s |-> s]

ArrayContains(target) == [op |-> "ArrayContains", target |-> target]

HasKey(key) == [op |-> "HasKey", key |-> key]

And(filters) == [op |-> "And", filters |-> filters]

Or(filters) == [op |-> "Or", filters |-> filters]

(***************************************************************************)
(* Filter::resolve_path                                                    *)
(***************************************************************************)
\* a slice whose start lies behind its end panics
Panic == [ok |-> FALSE, err |-> "panic"]

\* variant of IsArraySegment that looks for the closing bracket only
IsArraySegmentClosingOnly(segment) ==
    ContainsChar(segment, "]") /\ EndsWithChar(segment, "]")

\* the test that sends a segment to the bracket parser
IsArraySegment(segment) == ContainsChar(segment, "[") /\ EndsWithChar(segment, "]")

\* Filter::parse_array_segment: Ok of (field, index), or the error
ParseArraySegment(segment) ==
    LET bracket_idx == FindChar(segment, "[")
    IN  IF bracket_idx < 0 THEN InvalidPath(segment)
        ELSE IF bracket_idx + 1 > Len(segment) - 1 THEN Panic
        ELSE LET field == Slice(segment, 0, bracket_idx)
                 index_str == Slice(segment, bracket_idx + 1, Len(segment) - 1)
                 index == ParseUsize(index_str)
             IN  IF index < 0 THEN InvalidArrayIndex(index_str)
                 ELSE Ok([field |-> field, index |-> index])

\* variant of FieldGet that reports a value that is not an Object as a
\* type mismatch, the way the index step reports a value that is not an Array
FieldGetTyped(current, key) ==
    IF current.k # "obj" THEN TypeMismatch("object", current)
    ELSE IF key \in DOMAIN current.o THEN Ok(current.o[key])
    ELSE PathNotFound(key)

\* current.get(key).ok_or_else(|| PathNotFound(key))
FieldGet(current, key) ==
    LET got == ValueGet(current, key)
    IN  IF got.some THEN Ok(got.val) ELSE PathNotFound(key)

\* match current { Array(arr) => arr.get(index).ok_or_else(..)?, _ => TypeMismatch }
IndexStep(current, index) ==
    IF current.k = "arr"
    THEN LET got == SliceGet(current.a, index)
         IN  IF got.some THEN Ok(got.val) ELSE InvalidArrayIndex(UsizeToString(index))
    ELSE TypeMismatch("array", current)

\* variant of ResolveSegment that descends by the field before it parses
\* the index
ResolveSegmentFieldFirst(current, segment) ==
    IF IsArraySegment(segment)
    THEN LET field == Slice(segment, 0, FindChar(segment, "["))
             inner == IF field # <<>> THEN FieldGet(current, field) ELSE Ok(current)
         IN  IF IsErr(inner) THEN inner
             ELSE LET parsed == ParseArraySegment(segment)
                  IN  IF IsErr(parsed) THEN parsed
                      ELSE IndexStep(inner.val, parsed.val.index)
    ELSE FieldGet(current, segment)

\* one iteration of the loop over the segments
ResolveSegment(current, segment) ==
    IF IsArraySegment(segment)
    THEN LET parsed == ParseArraySegment(segment)
         IN  IF IsErr(parsed) THEN parsed
             ELSE LET field == parsed.val.field
                      index == parsed.val.index
                      inner == IF field # <<>> THEN FieldGet(current, field)
                               ELSE Ok(current)
                  IN  IF IsErr(inner) THEN inner ELSE IndexStep(inner.val, index)
    ELSE FieldGet(current, segment)

\* the loop: every ? leaves it with the error of the segment that failed
RECURSIVE ResolveSegments(_, _)
ResolveSegments(segments, current) ==
    IF segments = <<>> THEN Ok(current)
    ELSE LET next == ResolveSegment(current, Head(segments))
         IN  IF IsErr(next) THEN next ELSE ResolveSegments(Tail(segments), next.val)

ResolvePath(path, v) ==
    IF path = <<".">> THEN Ok(v) ELSE ResolveSegments(Split(path, "."), v)

(***************************************************************************)
(* Filter::check and Filter::check_operator                                *)
(***************************************************************************)
RECURSIVE Check(_, _)
RECURSIVE CheckOperator(_, _)

\* variant of CompareNumber whose GreaterOrEqual compares strictly
CompareNumberStrictGe(op, x, n) ==
    CASE op = "GreaterThan" -> F64Gt(x, n)
      [] op = "LessThan" -> F64Lt(x, n)
      [] op = "GreaterOrEqual" -> F64Gt(x, n)
      [] op = "LessOrEqual" -> F64Le(x, n)

\* the numeric comparison of the four numeric operators
CompareNumber(op, x, n) ==
    CASE op = "GreaterThan" -> F64Gt(x, n)
      [] op = "LessThan" -> F64Lt(x, n)
      [] op = "GreaterOrEqual" -> F64Ge(x, n)
      [] op = "LessOrEqual" -> F64Le(x, n)

\* the string test of the three string operators
TestString(op, str, s) ==
    CASE op = "StartsWith" -> StartsWith(str, s)
      [] op = "EndsWith" -> EndsWith(str, s)
      [] op = "Contains" -> ContainsStr(str, s)

\* variant of CheckChildren that drops the children whose check fails, as
\* filters.iter().filter_map(|f| f.check(value).ok()) would
RECURSIVE CheckChildrenDropErrors(_, _, _)
CheckChildrenDropErrors(filters, v, results) ==
    IF filters = <<>> THEN Ok(results)
    ELSE LET r == Check(Head(filters), v)
         IN  IF IsErr(r) THEN CheckChildrenDropErrors(Tail(filters), v, results)
             ELSE CheckChildrenDropErrors(Tail(filters), v, Append(results, r.val))

\* for filter in filters { results.push(filter.check(value)?); }
RECURSIVE CheckChildren(_, _, _)
CheckChildren(filters, v, results) ==
    IF filters = <<>> THEN Ok(results)
    ELSE LET r == Check(Head(filters), v)
         IN  IF IsErr(r) THEN r
             ELSE CheckChildren(Tail(filters), v, Append(results, r.val))

\* variant of AllTrue that leaves out the last result
AllButLastTrue(results) == \A i \in 1..(Len(results) - 1) : results[i]

\* results.iter().all(|&x| x)
AllTrue(results) == \A i \in 1..Len(results) : results[i]

\* results.iter().any(|&x| x)
AnyTrue(results) == \E i \in 1..Len(results) : results[i]

CheckOperator(self, v) ==
    LET o == self.operator
    IN  CASE o.op \in {"GreaterThan", "LessThan", "GreaterOrEqual", "LessOrEqual"} ->
                IF v.k = "num" THEN Ok(CompareNumber(o.op, AsF64(v.n), o.n))
                ELSE TypeMismatch("number", v)
          [] o.op = "Equals" -> Ok(v = o.target)
          [] o.op = "NotEqual" -> Ok(v # o.target)
          [] o.op \in {"StartsWith", "EndsWith", "Contains"} ->
                IF v.k = "str" THEN Ok(TestString(o.op, v.s, o.s))
                ELSE TypeMismatch("string", v)
          [] o.op = "ArrayContains" ->
                IF v.k = "arr" THEN Ok(\E i \in 1..Len(v.a) : v.a[i] = o.target)
                ELSE TypeMismatch("array", v)
          [] o.op = "HasKey" ->
                IF v.k = "obj" THEN Ok(o.key \in DOMAIN v.o)
                ELSE TypeMismatch("object", v)
          [] o.op = "And" ->
                LET rs == CheckChildren(o.filters, v, <<>>)
                IN  IF IsErr(rs) THEN rs ELSE Ok(AllTrue(rs.val))
          [] o.op = "Or" ->
                LET rs == CheckChildren(o.filters, v, <<>>)
                IN  IF IsErr(rs) THEN rs ELSE Ok(AnyTrue(rs.val))

\* variant of Check that resolves the path of an And or Or filter but hands
\* the value it was given, not the resolved one, to the children
CheckChildrenOnTopLevel(self, v) ==
    LET target == ResolvePath(self.path, v)
    IN  IF IsErr(target) THEN target
        ELSE IF self.operator.op \in {"And", "Or"} THEN CheckOperator(self, v)
        ELSE CheckOperator(self, target.val)

Check(self, v) ==
    LET target == ResolvePath(self.path, v)
    IN  IF IsErr(target) THEN target ELSE CheckOperator(self, target.val)

(***************************************************************************)
(* Inputs: the paths, values and filters the checks range over             *)
(***************************************************************************)
\* longest path that is enumerated character by character
MaxPathLen == 5

\* largest low part of the numbers and thresholds
MaxLo == 2

\* most children of an And or Or filter
MaxChildren == 2

PathChars == {"a", ".", "[", "]", "1"}

StringsUpTo(n) == UNION {[1..m -> PathChars] : m \in 0..n}

\* longer paths: two-step descents, leading zeros, a sign, an index that is
\* out of bounds, an empty field before the bracket, a bracket in mid-segment
LongPaths ==
    { <<"a", ".", "a", "[", "1", "]">>, <<"a", "[", "1", "]", ".", "a">>,
      <<"a", ".", "[", "0", "]">>, <<"[", "1", "]", ".", "[", "0", "]">>,
      <<"a", "[", "0", "1", "]">>, <<"a", "[", "+", "1", "]">>,
      <<"a", "[", "1", "2", "]">>, <<"a", "[", "-", "1", "]">>,
      <<"a", "[", "1", "]", "[", "0", "]">>, <<"a", "[", "1", "]", "a", "]">>,
      <<"a", ".", "a", ".", "a">>, <<"a", "[", "1", ".", "a", "]">>,
      <<".", "[", "1", "]", ".">>, <<"a", "[", "a", "]", ".", "a">> }

Paths == StringsUpTo(MaxPathLen) \cup LongPaths

One == Number(PosInt(0, 1))

StrA == String(<<"a">>)

Leaves == {Null, One, StrA}

\* values with arrays and objects nested inside each other
PathValues ==
    Leaves \cup
    { Array(<<>>), Array(<<One>>), Array(<<StrA, Null>>),
      Array(<<Array(<<One>>), Array(<<Null, StrA>>)>>),
      Array(<<Object(<<"a">> :> One), Object(<<"a">> :> Array(<<StrA, One>>))>>),
      Object(<<>>), Object(<<"a">> :> One), Object(<<"a">> :> Null),
      Object(<<"a">> :> Array(<<Null, One>>)),
      Object(<<"a">> :> Array(<<Object(<<"a">> :> StrA), Array(<<One, StrA>>)>>)),
      Object(<<"a">> :> Object(<<"a">> :> Array(<<StrA, One>>))),
      Object(<<"a">> :> Object(<<"a">> :> Object(<<"a">> :> One))),
      Object((<<>> :> Object(<<>> :> One)) @@ (<<"a">> :> StrA)),
      Object((<<>> :> Array(<<One, StrA>>)) @@ (<<"1">> :> One)),
      Object((<<"a", "[", "1">> :> One) @@ (<<"a", "]">> :> StrA)
             @@ (<<"[", "1", "]">> :> Null)) }

\* operators for the filters whose path is enumerated: a leaf and two trees
PathOperators ==
    { Equals(One),
      And(<<NewFilter(<<"a">>, NotEqual(Null)),
            NewFilter(<<".">>, Or(<<NewFilter(<<"[", "a", "]">>, Equals(One))>>))>>) }

PathFilters == {NewFilter(p, o) : p \in Paths, o \in PathOperators}

\* numbers next to 0 and next to 2^53, as integers and as floats
FiniteF64s ==
    {Fin(0, lo) : lo \in -1..MaxLo} \cup
    {Fin(1, lo) : lo \in {l \in 0..(MaxLo + 2) : l % 2 = 0}}

Numbers ==
    {PosInt(0, lo) : lo \in 0..MaxLo} \cup {NegInt(-1)} \cup
    {PosInt(1, lo) : lo \in 0..(MaxLo + 1)} \cup
    {Float(f) : f \in FiniteF64s}

Thresholds == FiniteF64s \cup {NaN}

Strs == {<<>>, <<"a">>, <<"a", "b">>, <<"b", "a">>}

OpValues ==
    {Null, Bool(TRUE), Bool(FALSE)} \cup {Number(n) : n \in Numbers} \cup
    {String(s) : s \in Strs} \cup
    { Array(<<>>), Array(<<One, StrA>>), Object(<<>>), Object(<<"a">> :> Null),
      Object(<<"b">> :> One) }

LeafOperators ==
    {GreaterThan(n) : n \in Thresholds} \cup {LessThan(n) : n \in Thresholds} \cup
    {GreaterOrEqual(n) : n \in Thresholds} \cup {LessOrEqual(n) : n \in Thresholds} \cup
    {Equals(t) : t \in Leaves} \cup {NotEqual(t) : t \in Leaves} \cup
    {OpStartsWith(s) : s \in Strs} \cup {OpEndsWith(s) : s \in Strs} \cup
    {OpContains(s) : s \in Strs} \cup
    {ArrayContains(t) : t \in {One, Null}} \cup {HasKey(k) : k \in {<<"a">>, <<>>}}

\* a leaf filter on the value itself, or on its member a
OpFilters == {NewFilter(p, o) : p \in {<<".">>, <<"a">>}, o \in LeafOperators}

OpInputs == OpValues \cup {Object(<<"a">> :> v) : v \in OpValues}

\* children of And and Or: true, false or failing, depending on the value
Children ==
    { NewFilter(<<"a">>, Equals(One)),
      NewFilter(<<".">>, HasKey(<<"a">>)),
      NewFilter(<<"a">>, GreaterThan(Fin(0, 0))),
      NewFilter(<<"b">>, OpStartsWith(<<"a">>)),
      NewFilter(<<"[", "0", "]">>, NotEqual(Null)),
      NewFilter(<<"a", ".", "a">>, Equals(One)),
      NewFilter(<<".">>, Or(<<NewFilter(<<"a">>, Equals(One)),
                              NewFilter(<<"a">>, GreaterThan(Fin(0, 0)))>>)),
      NewFilter(<<"a">>, And(<<NewFilter(<<".">>, HasKey(<<"a">>))>>)) }

ChildLists == UNION {[1..m -> Children] : m \in 0..MaxChildren}

LogicPaths == {<<".">>, <<"a">>, <<"b">>, <<"a", ".", "a">>, <<"[", "0", "]">>}

LogicFilters ==
    {NewFilter(p, And(fs)) : p \in LogicPaths, fs \in ChildLists} \cup
    {NewFilter(p, Or(fs)) : p \in LogicPaths, fs \in ChildLists}

LogicValues ==
    { One, Object(<<>>), Object(<<"a">> :> One),
      Object(<<"a">> :> Object(<<"a">> :> One)),
      Object((<<"a">> :> Object((<<"a">> :> One) @@ (<<"b">> :> StrA)))
             @@ (<<"b">> :> StrA)),
      Object((<<"a">> :> One) @@ (<<"b">> :> String(<<"b">>))),
      Object(<<"a">> :> Object(<<"a">> :> Object(<<"a">> :> One))),
      Object((<<"a">> :> Array(<<One>>)) @@ (<<"b">> :> Object(<<"a">> :> One))),
      Array(<<Object(<<"a">> :> One)>>),
      Array(<<Array(<<One>>), StrA>>) }

(***************************************************************************)
(* The state machine: one check of a filter against a value, followed by   *)
(* the resolution of the path one segment at a time                        *)
(***************************************************************************)
\* the pieces s1, ..., sn of the path s1.s2.....sn, read from its right end
RECURSIVE PiecesOf(_)
PiecesOf(path) ==
    IF \A i \in 1..Len(path) : path[i] # "."
    THEN <<path>>
    ELSE LET last == CHOOSE i \in 1..Len(path) :
                         path[i] = "." /\ \A j \in (i + 1)..Len(path) : path[j] # "."
         IN  Append(PiecesOf(SubSeq(path, 1, last - 1)), SubSeq(path, last + 1, Len(path)))

NoResult == [ok |-> FALSE, err |-> "none"]

InitWith(f, v) ==
    /\ filter = f
    /\ value = v
    /\ pc = "start"
    /\ result = NoResult
    /\ segs = PiecesOf(f.path)
    /\ trail = <<Ok(v)>>

InitPath == \E f \in PathFilters, v \in PathValues : InitWith(f, v)

InitOp == \E f \in OpFilters, v \in OpInputs : InitWith(f, v)

InitLogic == \E f \in LogicFilters, v \in LogicValues : InitWith(f, v)

Init == InitPath \/ InitOp \/ InitLogic

\* filter.check(&value)
DoCheck ==
    /\ pc = "start"
    /\ result' = Check(filter, value)
    /\ pc' = "checked"
    /\ UNCHANGED <<filter, value, segs, trail>>

\* Filter::new(s_i, ..).resolve_path(current): the next piece of the path,
\* resolved as a path of its own on the value the earlier pieces led to
StepResolve ==
    /\ pc = "checked"
    /\ Len(trail) <= Len(segs)
    /\ IsOk(trail[Len(trail)])
    /\ trail' = Append(trail, ResolvePath(segs[Len(trail)], trail[Len(trail)].val))
    /\ UNCHANGED <<filter, value, pc, result, segs>>

Next == DoCheck \/ StepResolve

SpecPath == InitPath /\ [][Next]_vars

SpecOp == InitOp /\ [][Next]_vars

SpecLogic == InitLogic /\ [][Next]_vars

Spec == Init /\ [][Next]_vars

(***************************************************************************)
(* Properties of And and Or (checked under SpecLogic)                      *)
(***************************************************************************)
IsLogical(f) == f.operator.op \in {"And", "Or"}

\* the value the filter's own path resolves to
Target == ResolvePath(filter.path, value)

\* the children of the filter, each checked against w
ChildResults(w) ==
    [i \in 1..Len(filter.operator.filters) |-> Check(filter.operator.filters[i], w)]

\* what a sequence of child results combines to: the leftmost error if there
\* is one, else the conjunction (And) or the disjunction (Or)
Combined(op, rs) ==
    IF \E i \in 1..Len(rs) : IsErr(rs[i])
    THEN rs[CHOOSE i \in 1..Len(rs) : IsErr(rs[i]) /\ \A j \in 1..(i - 1) : IsOk(rs[j])]
    ELSE IF op = "And" THEN Ok(\A i \in 1..Len(rs) : rs[i].val)
         ELSE Ok(\E i \in 1..Len(rs) : rs[i].val)

\* C1 as stated: the check of an And or Or filter whose path resolves is
\* computed from the checks of its children on the top-level value that was
\* passed to check.
C1_ChildrenSeeTopLevelValue ==
    (pc = "checked" /\ IsLogical(filter) /\ IsOk(Target))
        => result = Combined(filter.operator.op, ChildResults(value))

\* C1 amended: the check of an And or Or filter whose path resolves to r is
\* computed from the checks of its children on r, the value the path
\* resolves to; that is the top-level value when the path is ".".
C1_ChildrenSeeResolvedValue ==
    (pc = "checked" /\ IsLogical(filter) /\ IsOk(Target))
        => /\ result = Combined(filter.operator.op, ChildResults(Target.val))
           /\ filter.path = <<".">> => Target.val = value

\* a filter with a path other than "." whose children all succeed on both
\* values, and whose result is not what the top-level value would give
C1_Witness ==
    /\ pc = "checked" /\ IsLogical(filter) /\ IsOk(Target)
    /\ filter.path # <<".">>
    /\ Len(filter.operator.filters) = 2
    /\ \A i \in 1..2 : IsOk(ChildResults(value)[i]) /\ IsOk(ChildResults(Target.val)[i])
    /\ result = Ok(TRUE)
    /\ Combined(filter.operator.op, ChildResults(value)) = Ok(FALSE)

\* C2: with the path ".", And of children that all succeed on the value is Ok
\* of the conjunction of their results and Or is Ok of their disjunction; And
\* of no children is Ok(true) and Or of no children is Ok(false).
C2_AndOrOfSucceedingChildren ==
    LET rs == ChildResults(value)
    IN  (/\ pc = "checked" /\ IsLogical(filter) /\ filter.path = <<".">>
         /\ \A i \in 1..Len(rs) : IsOk(rs[i]))
            => /\ filter.operator.op = "And"
                    => result = Ok(\A i \in 1..Len(rs) : rs[i].val = TRUE)
               /\ filter.operator.op = "Or"
                    => result = Ok(\E i \in 1..Len(rs) : rs[i].val = TRUE)
               /\ (Len(rs) = 0 /\ filter.operator.op = "And") => result = Ok(TRUE)
               /\ (Len(rs) = 0 /\ filter.operator.op = "Or") => result = Ok(FALSE)

\* an And of two succeeding children, the last of them false
C2_Witness ==
    /\ pc = "checked" /\ filter.path = <<".">> /\ filter.operator.op = "And"
    /\ Len(filter.operator.filters) = 2
    /\ ChildResults(value)[1] = Ok(TRUE)
    /\ ChildResults(value)[2] = Ok(FALSE)
    /\ result = Ok(FALSE)

\* C3: when the path of an And or Or filter resolves and the check of at
\* least one child fails, the check fails with the error of the leftmost
\* failing child, whatever the children to its left returned.
C3_LeftmostChildErrorPropagates ==
    LET rs == ChildResults(Target.val)
    IN  (/\ pc = "checked" /\ IsLogical(filter) /\ IsOk(Target)
         /\ \E i \in 1..Len(rs) : IsErr(rs[i]))
            => \E i \in 1..Len(rs) :
                  /\ IsErr(rs[i])
                  /\ \A j \in 1..(i - 1) : IsOk(rs[j])
                  /\ result = rs[i]

\* an Or whose first child is true and whose second child fails
C3_Witness ==
    /\ pc = "checked" /\ filter.operator.op = "Or" /\ IsOk(Target)
    /\ Len(filter.operator.filters) = 2
    /\ ChildResults(Target.val)[1] = Ok(TRUE)
    /\ IsErr(ChildResults(Target.val)[2])
    /\ result = ChildResults(Target.val)[2]

(***************************************************************************)
(* Properties of the typed operators (checked under SpecOp)                *)
(***************************************************************************)
\* the kind of value each typed operator applies to, as the claim lists them
RequiredKind(op) ==
    CASE op \in {"GreaterThan", "LessThan", "GreaterOrEqual", "LessOrEqual"} ->
              [k |-> "num", expected |-> "number"]
      [] op \in {"StartsWith", "EndsWith", "Contains"} ->
              [k |-> "str", expected |-> "string"]
      [] op = "ArrayContains" -> [k |-> "arr", expected |-> "array"]
      [] op = "HasKey" -> [k |-> "obj", expected |-> "object"]

IsTyped(f) ==
    f.operator.op \in {"GreaterThan", "LessThan", "GreaterOrEqual", "LessOrEqual",
                       "StartsWith", "EndsWith", "Contains", "ArrayContains", "HasKey"}

\* C4: when the path resolves to r and the operator is numeric, a string
\* operator, ArrayContains or HasKey, check returns Err(TypeMismatch) with
\* expected "number", "string", "array" or "object" when r is not of the
\* operator's kind (never Ok(false)), and returns Ok when it is.
C4_TypeMismatchOrOk ==
    (pc = "checked" /\ IsTyped(filter) /\ IsOk(Target))
        => LET need == RequiredKind(filter.operator.op)
           IN  IF Target.val.k = need.k
               THEN result.ok /\ result.val \in BOOLEAN
               ELSE /\ ~result.ok
                    /\ result.err = "TypeMismatch"
                    /\ result.expected = need.expected

\* HasKey on a value that is not an object, reached through the path a
C4_Witness ==
    /\ pc = "checked" /\ filter.operator.op = "HasKey" /\ filter.path = <<"a">>
    /\ IsOk(Target) /\ Target.val.k = "arr"
    /\ ~result.ok /\ result.err = "TypeMismatch" /\ result.expected = "object"

\* the position of a finite f64 of the model on the number line
Rank(f) == f.hi * 1000 + f.lo

IsNumeric(f) ==
    f.operator.op \in {"GreaterThan", "LessThan", "GreaterOrEqual", "LessOrEqual"}

\* the check of the same path with another numeric operator on the threshold
WithOp(op) ==
    Check(NewFilter(filter.path, [op |-> op, n |-> filter.operator.n]), value)

\* C5: when the path resolves to a Number whose f64 value is x, GreaterThan(n)
\* gives Ok(x > n), LessThan(n) Ok(x < n), GreaterOrEqual(n) Ok(x > n or x = n)
\* and LessOrEqual(n) Ok(x < n or x = n), no comparison holding for a NaN n;
\* for finite n exactly one of GreaterThan(n), LessThan(n) and x = n holds and
\* GreaterOrEqual(n) is the negation of LessThan(n).
C5_NumericComparisons ==
    (pc = "checked" /\ IsNumeric(filter) /\ IsOk(Target) /\ Target.val.k = "num")
        => LET x == AsF64(Target.val.n)
               n == filter.operator.n
               fin == n.c = "fin"
               gt == fin /\ Rank(x) > Rank(n)
               lt == fin /\ Rank(x) < Rank(n)
               eq == fin /\ Rank(x) = Rank(n)
               op == filter.operator.op
           IN  /\ x.c = "fin"
               /\ op = "GreaterThan" => result = Ok(gt)
               /\ op = "LessThan" => result = Ok(lt)
               /\ op = "GreaterOrEqual" => result = Ok(gt \/ eq)
               /\ op = "LessOrEqual" => result = Ok(lt \/ eq)
               /\ fin => /\ Cardinality({b \in {"gt", "lt", "eq"} :
                                 \/ b = "gt" /\ WithOp("GreaterThan") = Ok(TRUE)
                                 \/ b = "lt" /\ WithOp("LessThan") = Ok(TRUE)
                                 \/ b = "eq" /\ eq}) = 1
                         /\ WithOp("GreaterOrEqual").ok /\ WithOp("LessThan").ok
                         /\ WithOp("GreaterOrEqual").val = ~WithOp("LessThan").val

\* GreaterOrEqual on an integer above 2^53 whose f64 value is the threshold
C5_Witness ==
    /\ pc = "checked" /\ filter.operator.op = "GreaterOrEqual"
    /\ IsOk(Target) /\ Target.val.k = "num"
    /\ Target.val.n = PosInt(1, 3)
    /\ filter.operator.n = Fin(1, 4)
    /\ result = Ok(TRUE)

(***************************************************************************)
(* Properties of path resolution (checked under SpecPath)                  *)
(***************************************************************************)
\* a segment of the form field[index]: it holds a '[' and ends with ']'
Bracketed(seg) ==
    /\ Len(seg) > 0 /\ seg[Len(seg)] = "]"
    /\ \E i \in 1..Len(seg) : seg[i] = "["

FirstOpen(seg) == CHOOSE i \in 1..Len(seg) : seg[i] = "[" /\ \A j \in 1..(i - 1) : seg[j] # "["

\* the text before the first '[' and the text between it and the final ']'
FieldOf(seg) == SubSeq(seg, 1, FirstOpen(seg) - 1)

IndexTextOf(seg) == SubSeq(seg, FirstOpen(seg) + 1, Len(seg) - 1)

IsDecimal(t) == t # <<>> /\ \A i \in 1..Len(t) : IsDigit(t[i])

\* the index texts str::parse::<usize> accepts: digits, after an optional '+'
Parses(t) == IsDecimal(t) \/ (Len(t) > 1 /\ t[1] = "+" /\ IsDecimal(Tail(t)))

\* the number a decimal text stands for, read from its last digit
RECURSIVE DecimalOf(_)
DecimalOf(t) ==
    IF t = <<>> THEN 0
    ELSE 10 * DecimalOf(SubSeq(t, 1, Len(t) - 1)) + DigitVal(t[Len(t)])

\* the decimal text of the number a decimal text stands for: the text without
\* its leading zeros
RECURSIVE DecimalText(_)
DecimalText(t) == IF Len(t) > 1 /\ t[1] = "0" THEN DecimalText(Tail(t)) ELSE t

\* the steps taken so far: step i resolves segs[i] on trail[i].val
Steps == 1..(Len(trail) - 1)

\* the descent by key f succeeds on cur (no descent for the empty field)
FieldOk(cur, f) == f = <<>> \/ (cur.k = "obj" /\ f \in DOMAIN cur.o)

\* the value the index of a bracketed segment is applied to
Reached(cur, f) == IF f = <<>> THEN cur ELSE cur.o[f]

\* the check applies the segments of every path but "."
Applies == filter.path # <<".">>

\* C6: in a bracketed segment field[i] with i a decimal number, when the value
\* reached (after the descent by field, or the current value for an empty
\* field) is an array, resolution continues with its element i if i is below
\* its length, and check fails with InvalidArrayIndex of the decimal text of i
\* otherwise.
C6_IndexIntoArray ==
    \A i \in Steps :
        LET seg == segs[i]
            cur == trail[i].val
        IN  (/\ Bracketed(seg) /\ IsDecimal(IndexTextOf(seg))
             /\ FieldOk(cur, FieldOf(seg))
             /\ Reached(cur, FieldOf(seg)).k = "arr")
                => LET arr == Reached(cur, FieldOf(seg)).a
                       n == DecimalOf(IndexTextOf(seg))
                   IN  IF n < Len(arr)
                       THEN /\ trail[i + 1] = [ok |-> TRUE, val |-> arr[n + 1]]
                            /\ i = Len(segs) => result = CheckOperator(filter, arr[n + 1])
                       ELSE /\ trail[i + 1] = [ok |-> FALSE, err |-> "InvalidArrayIndex",
                                               text |-> DecimalText(IndexTextOf(seg))]
                            /\ result = trail[i + 1]

\* the index 12 of the member a, out of the bounds of a two-element array
C6_Witness ==
    /\ Len(trail) = 2
    /\ segs[1] = <<"a", "[", "1", "2", "]">>
    /\ trail[1].val.k = "obj" /\ <<"a">> \in DOMAIN trail[1].val.o
    /\ trail[1].val.o[<<"a">>].k = "arr"
    /\ Len(trail[1].val.o[<<"a">>].a) = 2
    /\ trail[2] = [ok |-> FALSE, err |-> "InvalidArrayIndex", text |-> <<"1", "2">>]
    /\ result = trail[2]

\* C7: a plain field segment s applied to a value that is not an Object fails
\* with PathNotFound(s), as it does on an Object without the key s; the index
\* step of a bracketed segment applied to a value that is not an Array fails
\* with TypeMismatch, expected "array".
C7_KindMismatchInPath ==
    \A i \in Steps :
        LET seg == segs[i]
            cur == trail[i].val
        IN  /\ (~Bracketed(seg) /\ (cur.k # "obj" \/ seg \notin DOMAIN cur.o))
                => /\ trail[i + 1] = [ok |-> FALSE, err |-> "PathNotFound", text |-> seg]
                   /\ Applies => result = trail[i + 1]
            /\ (/\ Bracketed(seg) /\ Parses(IndexTextOf(seg))
                /\ FieldOk(cur, FieldOf(seg))
                /\ Reached(cur, FieldOf(seg)).k # "arr")
                => /\ trail[i + 1] = [ok |-> FALSE, err |-> "TypeMismatch",
                                      expected |-> "array",
                                      got |-> Reached(cur, FieldOf(seg))]
                   /\ result = trail[i + 1]

\* the plain segment a applied to an array, after an index step
C7_Witness ==
    /\ Len(trail) = 3
    /\ Bracketed(segs[1])
    /\ segs[2] = <<"a">>
    /\ trail[2].ok /\ trail[2].val.k = "arr"
    /\ trail[3] = [ok |-> FALSE, err |-> "PathNotFound", text |-> <<"a">>]
    /\ result = trail[3]

\* the stepwise resolution has come to its end
Complete == Len(trail) = Len(segs) + 1 \/ IsErr(trail[Len(trail)])

\* the outcome of the check that the stepwise resolution predicts
Stepwise ==
    IF IsErr(trail[Len(trail)]) THEN trail[Len(trail)]
    ELSE CheckOperator(filter, trail[Len(trail)].val)

\* C8 as stated: for every path s1.s2.....sn, resolving the whole path gives
\* what resolving s1, then s2 on the result, and so on gives: the same
\* sub-value, or the error of the first failing step.
C8_ResolutionComposes ==
    (pc = "checked" /\ Complete)
        => Target = trail[Len(trail)] /\ result = Stepwise

\* C8 amended: the same for every path other than ".", which resolves to the
\* value itself without its two empty segments being applied.
C8_ResolutionComposesExceptIdentity ==
    (pc = "checked" /\ Complete)
        => IF Applies THEN Target = trail[Len(trail)] /\ result = Stepwise
           ELSE Target = [ok |-> TRUE, val |-> value]

\* a path of three segments, the second of them failing
C8_Witness ==
    /\ pc = "checked" /\ Complete /\ Applies
    /\ Len(segs) = 3 /\ Len(trail) = 3
    /\ ~trail[3].ok /\ trail[3].err = "InvalidArrayIndex"
    /\ result = trail[3]

\* C9 as stated: in a bracketed segment field[index] with a non-empty field,
\* check fails with PathNotFound(field) whenever the current value is not an
\* Object or lacks the key field, whatever the index text is.
C9_FieldDescentBeforeIndexParse ==
    \A i \in Steps :
        LET seg == segs[i]
            cur == trail[i].val
        IN  (Bracketed(seg) /\ FieldOf(seg) # <<>> /\ ~FieldOk(cur, FieldOf(seg)))
                => /\ trail[i + 1] = [ok |-> FALSE, err |-> "PathNotFound",
                                      text |-> FieldOf(seg)]
                   /\ result = trail[i + 1]

\* C9 amended: in a bracketed segment field[index] with a non-empty field the
\* index text is parsed first: check fails with InvalidArrayIndex(index text)
\* whenever the index text does not parse, whatever the current value is, and
\* with PathNotFound(field) when it parses and the current value is not an
\* Object or lacks the key field.
C9_IndexParseBeforeFieldDescent ==
    \A i \in Steps :
        LET seg == segs[i]
            cur == trail[i].val
        IN  (Bracketed(seg) /\ FieldOf(seg) # <<>>)
                => /\ ~Parses(IndexTextOf(seg))
                        => /\ trail[i + 1] = [ok |-> FALSE, err |-> "InvalidArrayIndex",
                                              text |-> IndexTextOf(seg)]
                           /\ result = trail[i + 1]
                   /\ (Parses(IndexTextOf(seg)) /\ ~FieldOk(cur, FieldOf(seg)))
                        => /\ trail[i + 1] = [ok |-> FALSE, err |-> "PathNotFound",
                                              text |-> FieldOf(seg)]
                           /\ result = trail[i + 1]

\* an index text that does not parse, on a value without the field
C9_Witness ==
    /\ Len(trail) = 2
    /\ segs[1] = <<"a", "[", "a", "]">>
    /\ ~FieldOk(trail[1].val, <<"a">>)
    /\ trail[2] = [ok |-> FALSE, err |-> "InvalidArrayIndex", text |-> <<"a">>]
    /\ result = trail[2]

(***************************************************************************)
(* InvalidPath is unreachable (checked under Spec)                         *)
(***************************************************************************)
\* neither InvalidPath nor a slice outside the segment
Sound(r) == r.ok \/ r.err \notin {"InvalidPath", "panic"}

HasBracket(seg) == \E i \in 1..Len(seg) : seg[i] \in {"[", "]"}

\* what a plain field segment gives: the member, or PathNotFound(segment)
PlainOutcome(cur, seg) ==
    IF cur.k = "obj" /\ seg \in DOMAIN cur.o THEN [ok |-> TRUE, val |-> cur.o[seg]]
    ELSE [ok |-> FALSE, err |-> "PathNotFound", text |-> seg]

\* C10: check never returns InvalidPath: a segment reaches the bracket parser
\* only when it holds a '[' and ends with ']', so that the parser finds the
\* '[' and the index text between it and the final ']' is a substring of the
\* segment; a bracket segment that is malformed is reported as
\* InvalidArrayIndex of its index text or handled as a plain field.
C10_NeverInvalidPath ==
    /\ pc = "checked" => Sound(result)
    /\ \A i \in 1..Len(trail) : Sound(trail[i])
    /\ \A i \in 1..Len(segs) :
          IsArraySegment(segs[i])
              => /\ Bracketed(segs[i])
                 /\ FirstOpen(segs[i]) < Len(segs[i])
                 /\ Sound(ParseArraySegment(segs[i]))
    /\ \A i \in Steps :
          LET seg == segs[i]
              cur == trail[i].val
          IN  (HasBracket(seg) /\ ~(Bracketed(seg) /\ Parses(IndexTextOf(seg))))
                  => IF Bracketed(seg)
                     THEN trail[i + 1] = [ok |-> FALSE, err |-> "InvalidArrayIndex",
                                          text |-> IndexTextOf(seg)]
                     ELSE trail[i + 1] = PlainOutcome(cur, seg)

\* a segment with an opening bracket only, found as a key of the object
C10_Witness ==
    /\ pc = "checked" /\ Len(trail) = 2
    /\ segs[1] = <<"a", "[", "1">>
    /\ trail[2].ok
    /\ result.ok

====
